---- MODULE Spec2Model ----
(***************************************************************************)
(* FolderCompare: the bucketed hash set (customhashset.rs), the file       *)
(* identity variants (filedata.rs) and the comparison run (main.rs).       *)
(***************************************************************************)
EXTENDS Integers, Sequences, FiniteSets, TLC

VARIABLES
    strategy,   \* the (eq_fn, hash_fn) pair both tables were constructed with
    table,      \* the CustomHashSet under test: [buckets, buckets_required]
    other,      \* a second CustomHashSet with the same strategy
    last,       \* the last table operation: its name, argument, result, receiver before
    panicked,   \* TRUE once an operation has panicked (remainder by zero)
    cmp,        \* last evaluation of a variant's eq / hash on a pair of records
    history,    \* of the elements stored in table: [inserted, pushed], each in order
    test,       \* the test program: [pc, numbers, i, normal_hashset]
    main,       \* main: its position, the command line, the parsed comparison, its result
    config,     \* Config: comparer, raw, firstonly, onethread
    disk,       \* the regular files under folder1 (disk[1]) and folder2 (disk[2])
    walk,       \* walk[b]: the files of folder b in the order the directory walk yields them
    hashed,     \* hashed[b]: the paths branch b has handed to hash_file, in order
    todo,       \* todo[b]: the part of walk[b] the loop of branch b has not reached yet
    scan,       \* scan[b]: "idle", "running", "ok" or "err" for scan_folder of branch b
    files1,     \* the HashSet built from folder1
    files2,     \* the HashSet built from folder2
    pc,         \* position of scan_and_check
    diff1,      \* files1.difference(&files2), collected
    diff2,      \* files2.difference(&files1), collected
    count,      \* the count of differences
    stdout      \* what has been printed: a sequence of lines / blocks

tableVars == <<strategy, table, other, last, panicked>>

runVars == <<main, config, disk, walk, hashed, todo, scan, files1, files2, pc, diff1, diff2, count, stdout>>

vars == <<strategy, table, other, last, panicked, cmp, history, test, main, config, disk, walk, hashed, todo, scan,
          files1, files2, pc, diff1, diff2, count, stdout>>

----------------------------------------------------------------------------
(* Bounds of the model *)

\* bucket counts handed to new / rebuild range over 0..MaxBuckets
MaxBuckets == 3
\* an insert is attempted only while the receiver holds fewer elements
MaxLen == 3
\* in the two-table specification self holds at most this many elements
MaxSelf == 2
\* in the two-table specification other holds at most this many elements
MaxOther == 1
\* width of usize in bits (64 on the build target, scaled down)
UsizeBits == 8

UsizeMod == 2 ^ UsizeBits

----------------------------------------------------------------------------
(* Values *)

Names == {"a.txt", "b.txt"}
Sizes == {10, 11}
\* a Sha2Value is a fixed-width byte array; modelled as <<leading bytes, remaining bytes>>
Digests == {<<0, 0>>, <<0, 1>>}
Paths == {"/r/f"}

\* FileData2 / FileData<U>: filename, path, size, hash
FileData == [filename : Names, path : Paths, size : Sizes, hash : Digests]

\* the i32 values of the integer strategy
IntValues == {-2, -1, 0, 1, 3}

\* Sha2Value::default(): all bytes zero
Sha2Default == <<0, 0>>

\* Sha2Value::to_usize: the leading size_of::<usize>() bytes, big endian
to_usize(d) == d[1]

FileStrategies == {"Name", "NameSize", "Hash"}
Strategies == FileStrategies \cup {"Int"}

Values(s) == IF s = "Int" THEN IntValues ELSE FileData

----------------------------------------------------------------------------
(* Identity variants: impl PartialEq / impl Hash for FileData<U> *)

\* mutant of FileEq: the NameSize marker compares the name only
FileEq_NameSizeIgnoresSize(mode, a, b) ==
    CASE mode = "Name"     -> a.filename = b.filename
      [] mode = "NameSize" -> a.filename = b.filename
      [] mode = "Hash"     -> a.hash = b.hash /\ a.size = b.size

\* mutant of FileEq: the Hash marker compares the leading part of the digest
FileEq_HashPrefix(mode, a, b) ==
    CASE mode = "Name"     -> a.filename = b.filename
      [] mode = "NameSize" -> a.filename = b.filename /\ a.size = b.size
      [] mode = "Hash"     -> to_usize(a.hash) = to_usize(b.hash) /\ a.size = b.size

\* PartialEq::eq of the three markers
FileEq(mode, a, b) ==
    CASE mode = "Name"     -> a.filename = b.filename
      [] mode = "NameSize" -> a.filename = b.filename /\ a.size = b.size
      [] mode = "Hash"     -> a.hash = b.hash /\ a.size = b.size

NameCode(n) == CASE n = "a.txt" -> 1 [] n = "b.txt" -> 2 [] OTHER -> 3

\* mutant of FileHashInput: the Name marker also feeds the size to the Hasher
FileHashInput_NameFeedsSize(mode, a) ==
    CASE mode = "Name"     -> <<NameCode(a.filename), a.size>>
      [] mode = "NameSize" -> <<NameCode(a.filename), a.size>>
      [] mode = "Hash"     -> a.hash

\* Hash::hash of the three markers: the sequence of words written to the Hasher
FileHashInput(mode, a) ==
    CASE mode = "Name"     -> <<NameCode(a.filename)>>
      [] mode = "NameSize" -> <<NameCode(a.filename), a.size>>
      [] mode = "Hash"     -> a.hash

\* DefaultHasher: a deterministic mixing of the words written, truncated to usize
RECURSIVE Mix(_, _)
Mix(h, input) ==
    IF input = <<>> THEN h
    ELSE Mix((h * 3 + Head(input)) % UsizeMod, Tail(input))

\* get_hash: DefaultHasher::new, t.hash(&mut s), s.finish() as usize
get_hash(mode, a) == Mix(0, FileHashInput(mode, a))

\* eq_int of the test program
eq_int(a, b) == a = b

\* hash_int of the test program: *a as usize (sign extension, two's complement)
hash_int(a) == a % UsizeMod

\* the equality of a strategy: eq_int, or a == b of FileData<U>
EqOf(mode, a, b) == IF mode = "Int" THEN eq_int(a, b) ELSE FileEq(mode, a, b)

\* the hash of a strategy: hash_int, or get_hash over the Hash impl of FileData<U>
HashOf(mode, a) == IF mode = "Int" THEN hash_int(a) ELSE get_hash(mode, a)

\* the equality function stored in the table
eq_fn(a, b) == EqOf(strategy, a, b)

\* the hash function stored in the table
hash_fn(a) == HashOf(strategy, a)

----------------------------------------------------------------------------
(* std::collections::HashSet, as the programs use it *)

\* HashSet::contains: an element with the same hash that is equal
HashSetContains(mode, set, value) ==
    \E x \in set : HashOf(mode, x) = HashOf(mode, value) /\ EqOf(mode, x, value)

\* HashSet::insert: the set is left as it was when it contains the value
HashSetInsert(mode, set, value) ==
    IF HashSetContains(mode, set, value) THEN set ELSE set \cup {value}

\* mutant of HashSetDifference: the elements found in one of the sets only
HashSetDifference_Symmetric(mode, set, other_set) ==
    {x \in set : ~HashSetContains(mode, other_set, x)}
    \cup {x \in other_set : ~HashSetContains(mode, set, x)}

\* HashSet::difference: the elements of set that other does not contain
HashSetDifference(mode, set, other_set) ==
    {x \in set : ~HashSetContains(mode, other_set, x)}

----------------------------------------------------------------------------
(* CustomHashSet *)

\* create_buckets: an empty vector pushed buckets_required times
RECURSIVE create_buckets(_)
create_buckets(buckets_required) ==
    IF buckets_required = 0 THEN <<>>
    ELSE Append(create_buckets(buckets_required - 1), <<>>)

\* CustomHashSet::new
new(buckets_required) ==
    [buckets |-> create_buckets(buckets_required), buckets_required |-> buckets_required]

\* hash % self.buckets_required, as a 1-based position in buckets
BucketIndex(t, value) == (hash_fn(value) % t.buckets_required) + 1

\* bucket.iter().any(|x| eq_fn(x, value))
AnyEq(bucket, value) == \E i \in 1 .. Len(bucket) : eq_fn(bucket[i], value)

\* bucket.iter().position(|x| eq_fn(x, value)): 0 when there is none
Position(bucket, value) ==
    IF AnyEq(bucket, value)
    THEN CHOOSE i \in 1 .. Len(bucket) :
            /\ eq_fn(bucket[i], value)
            /\ \A j \in 1 .. (i - 1) : ~eq_fn(bucket[j], value)
    ELSE 0

\* Vec::remove(pos): the elements after pos shift left
VecRemove(bucket, pos) == SubSeq(bucket, 1, pos - 1) \o SubSeq(bucket, pos + 1, Len(bucket))

\* mutant of insert: an equal element is overwritten by the new value
insert_Overwrite(t, value) ==
    LET index == BucketIndex(t, value)
        bucket == t.buckets[index]
        pos == Position(bucket, value)
    IN  IF pos # 0
        THEN [table |-> [t EXCEPT !.buckets[index][pos] = value], ret |-> FALSE]
        ELSE [table |-> [t EXCEPT !.buckets[index] = Append(bucket, value)], ret |-> TRUE]

\* mutant of insert: the value is pushed without the equality check
insert_NoCheck(t, value) ==
    LET index == BucketIndex(t, value)
    IN  [table |-> [t EXCEPT !.buckets[index] = Append(@, value)], ret |-> TRUE]

\* mutant of insert: a value is rejected when its bucket holds any element
insert_RejectsCollision(t, value) ==
    LET index == BucketIndex(t, value)
        bucket == t.buckets[index]
    IN  IF bucket # <<>>
        THEN [table |-> t, ret |-> FALSE]
        ELSE [table |-> [t EXCEPT !.buckets[index] = Append(bucket, value)], ret |-> TRUE]

\* CustomHashSet::insert: the table afterwards and the value returned
insert(t, value) ==
    LET index == BucketIndex(t, value)
        bucket == t.buckets[index]
    IN  IF AnyEq(bucket, value)
        THEN [table |-> t, ret |-> FALSE]
        ELSE [table |-> [t EXCEPT !.buckets[index] = Append(bucket, value)], ret |-> TRUE]

\* mutant of contains: the value is looked for in the first bucket
contains_FirstBucket(t, value) == AnyEq(t.buckets[1], value)

\* CustomHashSet::contains
contains(t, value) == AnyEq(t.buckets[BucketIndex(t, value)], value)

\* mutant of remove: the whole bucket of the found element is emptied
remove_ClearsBucket(t, value) ==
    LET index == BucketIndex(t, value)
        bucket == t.buckets[index]
        pos == Position(bucket, value)
    IN  IF pos # 0
        THEN [table |-> [t EXCEPT !.buckets[index] = <<>>], ret |-> TRUE]
        ELSE [table |-> t, ret |-> FALSE]

\* mutant of remove: the found element is replaced by the last one of its bucket
remove_SwapRemove(t, value) ==
    LET index == BucketIndex(t, value)
        bucket == t.buckets[index]
        pos == Position(bucket, value)
    IN  IF pos # 0
        THEN [table |-> [t EXCEPT !.buckets[index] =
                            SubSeq([bucket EXCEPT ![pos] = bucket[Len(bucket)]], 1, Len(bucket) - 1)],
              ret |-> TRUE]
        ELSE [table |-> t, ret |-> FALSE]

\* CustomHashSet::remove: the table afterwards and the value returned
remove(t, value) ==
    LET index == BucketIndex(t, value)
        bucket == t.buckets[index]
        pos == Position(bucket, value)
    IN  IF pos # 0
        THEN [table |-> [t EXCEPT !.buckets[index] = VecRemove(bucket, pos)], ret |-> TRUE]
        ELSE [table |-> t, ret |-> FALSE]

\* CustomHashSet::iter: self.buckets.iter().flatten()
RECURSIVE Flatten(_)
Flatten(bs) == IF bs = <<>> THEN <<>> ELSE Head(bs) \o Flatten(Tail(bs))

iter(t) == Flatten(t.buckets)

\* CustomHashSet::len: sum of the bucket lengths
RECURSIVE SumLen(_)
SumLen(bs) == IF bs = <<>> THEN 0 ELSE Len(Head(bs)) + SumLen(Tail(bs))

len(t) == SumLen(t.buckets)

\* CustomHashSet::is_empty
is_empty(t) == \A i \in 1 .. Len(t.buckets) : t.buckets[i] = <<>>

\* mutant of clear: only the first bucket is cleared
clear_FirstBucket(t) ==
    IF t.buckets = <<>> THEN t ELSE [t EXCEPT !.buckets = <<<<>>>> \o Tail(t.buckets)]

\* mutant of clear: the table is reset to a single empty bucket
clear_Reset(t) == new(1)

\* CustomHashSet::clear: every bucket cleared, the bucket array kept
clear(t) == [t EXCEPT !.buckets = create_buckets(Len(t.buckets))]

\* the loop of rebuild: each drained item pushed to new_buckets[hash % buckets_required]
RECURSIVE Redistribute(_, _, _)
Redistribute(new_buckets, items, buckets_required) ==
    IF items = <<>> THEN new_buckets
    ELSE LET item == Head(items)
             index == (hash_fn(item) % buckets_required) + 1
         IN  Redistribute([new_buckets EXCEPT ![index] = Append(@, item)],
                          Tail(items), buckets_required)

\* mutant of rebuild: each drained item is put at the front of its new bucket
RECURSIVE Redistribute_PushFront(_, _, _)
Redistribute_PushFront(new_buckets, items, buckets_required) ==
    IF items = <<>> THEN new_buckets
    ELSE LET item == Head(items)
             index == (hash_fn(item) % buckets_required) + 1
         IN  Redistribute_PushFront([new_buckets EXCEPT ![index] = <<item>> \o @],
                                    Tail(items), buckets_required)

rebuild_PushFront(t, buckets_required) ==
    [buckets |-> Redistribute_PushFront(create_buckets(buckets_required), Flatten(t.buckets),
                                        buckets_required),
     buckets_required |-> buckets_required]

\* mutant of rebuild: self.buckets_required is not updated
rebuild_StaleCount(t, buckets_required) ==
    [buckets |-> Redistribute(create_buckets(buckets_required), Flatten(t.buckets), buckets_required),
     buckets_required |-> t.buckets_required]

\* mutant of rebuild: the first old bucket is not drained
rebuild_SkipFirst(t, buckets_required) ==
    [buckets |-> Redistribute(create_buckets(buckets_required), Flatten(Tail(t.buckets)), buckets_required),
     buckets_required |-> buckets_required]

\* CustomHashSet::rebuild
rebuild(t, buckets_required) ==
    [buckets |-> Redistribute(create_buckets(buckets_required), Flatten(t.buckets), buckets_required),
     buckets_required |-> buckets_required]

\* mutant of DiffLoop: the test of other.contains is not negated
RECURSIVE DiffLoop_Inverted(_, _, _)
DiffLoop_Inverted(diff, items, o) ==
    IF items = <<>> THEN diff
    ELSE DiffLoop_Inverted(IF AnyEq(o.buckets[BucketIndex(o, Head(items))], Head(items))
                           THEN Append(diff, Head(items)) ELSE diff,
                           Tail(items), o)

\* the loop of difference: items of self pushed when other does not contain them
RECURSIVE DiffLoop(_, _, _)
DiffLoop(diff, items, o) ==
    IF items = <<>> THEN diff
    ELSE DiffLoop(IF ~contains(o, Head(items)) THEN Append(diff, Head(items)) ELSE diff,
                  Tail(items), o)

\* CustomHashSet::difference
difference(t, o) == DiffLoop(<<>>, iter(t), o)

\* CustomHashSet::difference_iter: self.iter().filter(|item| !other.contains(item)), collected
difference_iter(t, o) == LET Keep(item) == ~contains(o, item) IN SelectSeq(iter(t), Keep)

\* CustomHashSet::get_buckets
get_buckets(t) == t.buckets

\* the lengths of the buckets
BucketLens(t) == {Len(t.buckets[i]) : i \in 1 .. Len(t.buckets)}

\* CustomHashSet::largest_bucket_size: max of the lengths, 0 without buckets
largest_bucket_size(t) ==
    IF BucketLens(t) = {} THEN 0
    ELSE CHOOSE m \in BucketLens(t) : \A k \in BucketLens(t) : k <= m

\* CustomHashSet::smallest_bucket_size: min of the lengths, 0 without buckets
smallest_bucket_size(t) ==
    IF BucketLens(t) = {} THEN 0
    ELSE CHOOSE m \in BucketLens(t) : \A k \in BucketLens(t) : m <= k

\* CustomHashSet::empty_buckets
empty_buckets(t) == Cardinality({i \in 1 .. Len(t.buckets) : t.buckets[i] = <<>>})

----------------------------------------------------------------------------
(* Operations on the table under test *)

\* the variables of the test program, while it is not the program running
TestIdle == test = [pc |-> "idle", numbers |-> <<>>, i |-> 0, normal_hashset |-> {}]

\* the option -c / --comparison was not given
NoCompStr == [kind |-> "absent", s |-> <<>>]

\* main is not the program running: scan_and_check is run on its own
MainIdle ==
    [pc |-> "idle",
     args |-> [raw |-> FALSE, help |-> FALSE, foldera |-> "none", folderb |-> "none",
               compstr |-> NoCompStr, firstonly |-> FALSE, onethread |-> FALSE, unused |-> FALSE],
     compareropt |-> "none",
     result |-> "none"]

\* the variables of the comparison run, while it is not the program running
RunIdle ==
    /\ main = MainIdle
    /\ config = [comparer |-> "Name", raw |-> FALSE, firstonly |-> FALSE, onethread |-> TRUE]
    /\ disk = <<{}, {}>>
    /\ walk = <<<<>>, <<>>>>
    /\ hashed = <<<<>>, <<>>>>
    /\ todo = <<<<>>, <<>>>>
    /\ scan = <<"idle", "idle">>
    /\ files1 = {}
    /\ files2 = {}
    /\ pc = "idle"
    /\ diff1 = <<>>
    /\ diff2 = <<>>
    /\ count = 0
    /\ stdout = <<>>

\* no comparison evaluated yet
NoCmp == [mode |-> "none"]

\* no element is stored in table
NoHistory == [inserted |-> <<>>, pushed |-> <<>>]

Op(op, value, n, ret, before) ==
    [op |-> op, value |-> value, n |-> n, ret |-> ret, before |-> before]

\* the bucket counts a caller may hand to new / rebuild within the stated precondition
BucketCounts == 1 .. MaxBuckets

\* the bucket counts the constructor accepts
AnyBucketCounts == 0 .. MaxBuckets

InitTable(counts) ==
    /\ strategy \in Strategies
    /\ \E n \in counts : table = new(n)
    /\ other = new(1)
    /\ last = Op("new", "none", 0, "none", new(0))
    /\ panicked = FALSE
    /\ cmp = NoCmp
    /\ history = NoHistory
    /\ TestIdle
    /\ RunIdle

Init == InitTable(BucketCounts)

Insert(value) ==
    /\ ~panicked
    /\ table.buckets_required # 0
    /\ len(table) < MaxLen
    /\ LET r == insert(table, value)
       IN  /\ table' = r.table
           /\ last' = Op("insert", value, 0, r.ret, table)
    /\ UNCHANGED <<strategy, other, panicked, cmp, history, test, runVars>>

Contains(value) ==
    /\ ~panicked
    /\ table.buckets_required # 0
    /\ last' = Op("contains", value, 0, contains(table, value), table)
    /\ UNCHANGED <<strategy, table, other, panicked, cmp, history, test, runVars>>

Remove(value) ==
    /\ ~panicked
    /\ table.buckets_required # 0
    /\ LET r == remove(table, value)
       IN  /\ table' = r.table
           /\ last' = Op("remove", value, 0, r.ret, table)
    /\ UNCHANGED <<strategy, other, panicked, cmp, history, test, runVars>>

Clear ==
    /\ ~panicked
    /\ table' = clear(table)
    /\ last' = Op("clear", "none", 0, "none", table)
    /\ UNCHANGED <<strategy, other, panicked, cmp, history, test, runVars>>

Rebuild(n) ==
    /\ ~panicked
    /\ n # 0 \/ is_empty(table)
    /\ table' = rebuild(table, n)
    /\ last' = Op("rebuild", "none", n, "none", table)
    /\ UNCHANGED <<strategy, other, panicked, cmp, history, test, runVars>>

LenQuery ==
    /\ ~panicked
    /\ last' = Op("len", "none", 0, len(table), table)
    /\ UNCHANGED <<strategy, table, other, panicked, cmp, history, test, runVars>>

IsEmptyQuery ==
    /\ ~panicked
    /\ last' = Op("is_empty", "none", 0, is_empty(table), table)
    /\ UNCHANGED <<strategy, table, other, panicked, cmp, history, test, runVars>>

\* table.difference(&table): the receiver is also the argument
SelfDifference ==
    /\ ~panicked
    /\ last' = Op("difference", "self", 0, difference(table, table), table)
    /\ UNCHANGED <<strategy, table, other, panicked, cmp, history, test, runVars>>

\* the diagnostics: get_buckets, largest_bucket_size, smallest_bucket_size, empty_buckets
Diagnostics ==
    /\ ~panicked
    /\ last' = Op("diagnostics", "none", 0,
                  [buckets |-> get_buckets(table),
                   largest |-> largest_bucket_size(table),
                   smallest |-> smallest_bucket_size(table),
                   empty |-> empty_buckets(table)],
                  table)
    /\ UNCHANGED <<strategy, table, other, panicked, cmp, history, test, runVars>>

Next ==
    \/ \E v \in Values(strategy) : Insert(v)
    \/ \E v \in Values(strategy) : Contains(v)
    \/ \E v \in Values(strategy) : Remove(v)
    \/ Clear
    \/ \E n \in BucketCounts : Rebuild(n)
    \/ LenQuery
    \/ IsEmptyQuery
    \/ SelfDifference
    \/ Diagnostics

Spec == Init /\ [][Next]_vars

----------------------------------------------------------------------------
(* Helpers of the properties *)

\* the set of elements of a sequence
Range(seq) == {seq[i] : i \in 1 .. Len(seq)}

\* the records stored in a table
Stored(t) == Range(iter(t))

\* positions <<bucket, slot>> of a table
Slots(t) == {<<i, k>> \in (1 .. Len(t.buckets)) \X (1 .. MaxLen + 1) : k <= Len(t.buckets[i])}

\* the table is usable: one bucket per index, at least one
WellFormed(t) == t.buckets_required >= 1 /\ Len(t.buckets) = t.buckets_required

----------------------------------------------------------------------------
(* Properties of the table under test *)

\* C1: insert(value) returns false and leaves every bucket as it was when the
\* bucket at hash_fn(value) mod bucket_count holds an element equal to value;
\* otherwise it appends value at the end of that bucket, changes no other
\* bucket and returns true. Inserting a then an equal b returns false for b
\* and leaves len() as it was after inserting a.
C1_InsertContract ==
    /\ last.op = "insert" =>
          LET t == last.before
              index == BucketIndex(t, last.value)
          IN  IF \E k \in 1 .. Len(t.buckets[index]) : eq_fn(t.buckets[index][k], last.value)
              THEN last.ret = FALSE /\ table = t
              ELSE /\ last.ret = TRUE
                   /\ table.buckets_required = t.buckets_required
                   /\ Len(table.buckets) = Len(t.buckets)
                   /\ table.buckets[index] = t.buckets[index] \o <<last.value>>
                   /\ \A j \in 1 .. Len(t.buckets) : j # index => table.buckets[j] = t.buckets[j]
    /\ \A a \in Values(strategy), b \in Values(strategy) :
          eq_fn(a, b) =>
             LET t1 == insert(table, a).table
                 r2 == insert(t1, b)
             IN  r2.ret = FALSE /\ len(r2.table) = len(t1) /\ r2.table = t1

\* C1 witness: an insert was rejected because an equal but different element is stored
C1_Witness ==
    /\ last.op = "insert"
    /\ last.ret = FALSE
    /\ len(table) >= 2
    /\ \E x \in Stored(table) : eq_fn(x, last.value) /\ x # last.value

\* C3: in every reachable state no bucket holds two stored records, at
\* different positions, that are equal under eq_fn; also after a rebuild.
C3_SetSemantics ==
    \A i \in 1 .. Len(table.buckets) :
        \A j \in 1 .. Len(table.buckets[i]), k \in 1 .. Len(table.buckets[i]) :
            j # k => ~eq_fn(table.buckets[i][j], table.buckets[i][k])

\* C3 witness: a rebuild has brought elements of different buckets into one bucket
C3_Witness ==
    /\ last.op = "rebuild"
    /\ last.n < last.before.buckets_required
    /\ \E i \in 1 .. Len(table.buckets) :
          /\ Len(table.buckets[i]) >= 2
          /\ \A j \in 1 .. Len(last.before.buckets) : last.before.buckets[j] # table.buckets[i]
          /\ \A j \in 1 .. Len(last.before.buckets) : Len(last.before.buckets[j]) < Len(table.buckets[i])

\* C4: every stored record is held in exactly one bucket, the bucket at
\* index hash_fn(record) mod the current bucket_count.
C4_Placement ==
    /\ WellFormed(table)
    /\ \A s \in Slots(table) : s[1] = BucketIndex(table, table.buckets[s[1]][s[2]])
    /\ \A s \in Slots(table), u \in Slots(table) :
          s # u => table.buckets[s[1]][s[2]] # table.buckets[u[1]][u[2]]

\* C4 witness: a rebuild to another bucket count has moved a stored record
C4_Witness ==
    /\ last.op = "rebuild"
    /\ last.n # last.before.buckets_required
    /\ len(table) >= 2
    /\ \E x \in Stored(table) : BucketIndex(table, x) # BucketIndex(last.before, x)

\* C7: rebuild(n >= 1) preserves len() and the membership set (contains is
\* unchanged for every value, no element added or duplicated) and sets
\* bucket_count to n.
C7_RebuildPreserves ==
    (last.op = "rebuild" /\ last.n >= 1) =>
        /\ table.buckets_required = last.n
        /\ Len(table.buckets) = last.n
        /\ len(table) = len(last.before)
        /\ Stored(table) = Stored(last.before)
        /\ Cardinality(Stored(table)) = len(table)
        /\ \A v \in Values(strategy) : contains(table, v) = contains(last.before, v)

\* C7 witness: a rebuild to a different bucket count of a table holding several elements
C7_Witness ==
    /\ last.op = "rebuild"
    /\ last.n # last.before.buckets_required
    /\ len(last.before) >= 2
    /\ table.buckets # last.before.buckets

----------------------------------------------------------------------------
(* The constructor as written: any bucket count is accepted *)

InitZero == InitTable(AnyBucketCounts)

\* insert on a table without buckets: hash % 0 panics
InsertPanic(value) ==
    /\ ~panicked
    /\ table.buckets_required = 0
    /\ panicked' = TRUE
    /\ last' = Op("insert", value, 0, "panic", table)
    /\ UNCHANGED <<strategy, table, other, cmp, history, test, runVars>>

\* contains on a table without buckets: hash % 0 panics
ContainsPanic(value) ==
    /\ ~panicked
    /\ table.buckets_required = 0
    /\ panicked' = TRUE
    /\ last' = Op("contains", value, 0, "panic", table)
    /\ UNCHANGED <<strategy, table, other, cmp, history, test, runVars>>

\* remove on a table without buckets: hash % 0 panics
RemovePanic(value) ==
    /\ ~panicked
    /\ table.buckets_required = 0
    /\ panicked' = TRUE
    /\ last' = Op("remove", value, 0, "panic", table)
    /\ UNCHANGED <<strategy, table, other, cmp, history, test, runVars>>

\* rebuild(0, _) of a table that holds an element: hash % 0 panics at the first
\* item, after self.buckets was taken and before buckets_required is assigned
RebuildPanic ==
    /\ ~panicked
    /\ ~is_empty(table)
    /\ panicked' = TRUE
    /\ table' = [table EXCEPT !.buckets = <<>>]
    /\ last' = Op("rebuild", "none", 0, "panic", table)
    /\ UNCHANGED <<strategy, other, cmp, history, test, runVars>>

NextZero ==
    \/ \E v \in Values(strategy) : Insert(v)
    \/ \E v \in Values(strategy) : Contains(v)
    \/ \E v \in Values(strategy) : Remove(v)
    \/ Clear
    \/ \E n \in AnyBucketCounts : Rebuild(n)
    \/ LenQuery
    \/ IsEmptyQuery
    \/ \E v \in Values(strategy) : InsertPanic(v)
    \/ \E v \in Values(strategy) : ContainsPanic(v)
    \/ \E v \in Values(strategy) : RemovePanic(v)
    \/ RebuildPanic

SpecZero == InitZero /\ [][NextZero]_vars

\* C8: new rejects a bucket count of zero, so no constructed table has zero
\* buckets and no insert, contains or remove computes hash mod 0.
C8_NewRejectsZero ==
    /\ last.op = "new" => table.buckets_required >= 1
    /\ (last.op \in {"insert", "contains", "remove"} /\ last.before.buckets_required = 0) => ~panicked

----------------------------------------------------------------------------
(* The identity variants as pure functions *)

InitIdentity ==
    /\ strategy = "Name"
    /\ table = new(1)
    /\ other = new(1)
    /\ last = Op("new", "none", 0, "none", new(0))
    /\ panicked = FALSE
    /\ cmp = NoCmp
    /\ history = NoHistory
    /\ TestIdle
    /\ RunIdle

\* a == b and the hashing of a and of b under one marker
Compare(mode, a, b) ==
    /\ cmp' = [mode |-> mode, a |-> a, b |-> b,
               eq |-> FileEq(mode, a, b),
               input_a |-> FileHashInput(mode, a), input_b |-> FileHashInput(mode, b),
               hash_a |-> get_hash(mode, a), hash_b |-> get_hash(mode, b)]
    /\ UNCHANGED <<tableVars, history, test, runVars>>

NextIdentity == \E mode \in FileStrategies, a \in FileData, b \in FileData : Compare(mode, a, b)

SpecIdentity == InitIdentity /\ [][NextIdentity]_vars

\* C9: for each of Name, NameSize and Hash and all records a, b: when the
\* variant's equality holds for (a, b), its hash feeds identical input for a
\* and b, so the hashes are equal.
C9_EqImpliesSameHash ==
    (cmp.mode # "none" /\ cmp.eq) => (cmp.input_a = cmp.input_b /\ cmp.hash_a = cmp.hash_b)

\* C9 witness: two different records, equal under NameSize, were compared
C9_Witness ==
    /\ cmp.mode = "NameSize"
    /\ cmp.eq
    /\ cmp.a # cmp.b

----------------------------------------------------------------------------
(* The test program: int_hash / string_hash / array_hash *)

\* how many values the test generates at most
MaxNumbers == 3

InitTest ==
    /\ strategy \in Strategies
    /\ \E n \in BucketCounts : table = new(n)
    /\ other = new(1)
    /\ last = Op("new", "none", 0, "none", new(0))
    /\ panicked = FALSE
    /\ cmp = NoCmp
    /\ history = NoHistory
    /\ test = [pc |-> "generate", numbers |-> <<>>, i |-> 0, normal_hashset |-> {}]
    /\ RunIdle

\* numbers.push(r)
Generate(r) ==
    /\ test.pc = "generate"
    /\ Len(test.numbers) < MaxNumbers
    /\ test' = [test EXCEPT !.numbers = Append(@, r)]
    /\ UNCHANGED <<tableVars, cmp, history, runVars>>

\* the array of values is complete
GenerateDone ==
    /\ test.pc = "generate"
    /\ test' = [test EXCEPT !.pc = "normal", !.i = 0]
    /\ UNCHANGED <<tableVars, cmp, history, runVars>>

\* normal_hashset.insert(*i)
NormalInsert ==
    /\ test.pc = "normal"
    /\ test.i < Len(test.numbers)
    /\ test' = [test EXCEPT !.i = @ + 1,
                            !.normal_hashset = HashSetInsert(strategy, @, test.numbers[test.i + 1])]
    /\ UNCHANGED <<tableVars, cmp, history, runVars>>

\* the first loop is over
NormalDone ==
    /\ test.pc = "normal"
    /\ test.i = Len(test.numbers)
    /\ test' = [test EXCEPT !.pc = "custom", !.i = 0]
    /\ UNCHANGED <<tableVars, cmp, history, runVars>>

\* custom_hashset.insert(*i)
CustomInsert ==
    /\ test.pc = "custom"
    /\ test.i < Len(test.numbers)
    /\ table' = insert(table, test.numbers[test.i + 1]).table
    /\ test' = [test EXCEPT !.i = @ + 1]
    /\ UNCHANGED <<strategy, other, last, panicked, cmp, history, runVars>>

\* the counts are printed and compared
Report ==
    /\ test.pc = "custom"
    /\ test.i = Len(test.numbers)
    /\ test' = [test EXCEPT !.pc = IF len(table) # Cardinality(test.normal_hashset)
                                   THEN "warning" ELSE "report"]
    /\ UNCHANGED <<tableVars, cmp, history, runVars>>

NextTest ==
    \/ \E r \in Values(strategy) : Generate(r)
    \/ GenerateDone
    \/ NormalInsert
    \/ NormalDone
    \/ CustomInsert
    \/ Report

SpecTest == InitTest /\ [][NextTest]_vars

\* the number of values of a sequence that are distinct under eq_fn
DistinctCount(seq) ==
    Cardinality({{j \in 1 .. Len(seq) : eq_fn(seq[i], seq[j])} : i \in 1 .. Len(seq)})

\* the values the test has inserted into the custom table so far
Inserted ==
    CASE test.pc = "custom" -> SubSeq(test.numbers, 1, test.i)
      [] test.pc \in {"report", "warning"} -> test.numbers
      [] OTHER -> <<>>

\* C2: after inserting any sequence of values into an empty table with any
\* bucket_count >= 1, len() is the number of values distinct under eq_fn (the
\* sequence length when all are distinct, and the count the reference set
\* reports) and contains(v) is true for every inserted v.
C2_LenAndContains ==
    /\ len(table) = DistinctCount(Inserted)
    /\ \A j \in 1 .. Len(Inserted) : contains(table, Inserted[j])
    /\ test.pc # "warning"
    /\ test.pc = "report" => len(table) = Cardinality(test.normal_hashset)

\* C2 witness: three different values, two of them equal under eq_fn, were
\* inserted into a table of several buckets
C2_Witness ==
    /\ test.pc = "report"
    /\ table.buckets_required >= 2
    /\ Len(test.numbers) = 3
    /\ Cardinality(Range(test.numbers)) = 3
    /\ len(table) = 2

----------------------------------------------------------------------------
(* Two tables with the same strategy, and the difference between them *)

\* a mutation of one of the two tables is not recorded in detail
Mutated == Op("mutate", "none", 0, "none", new(0))

InitDiff ==
    /\ strategy \in Strategies
    /\ \E n \in BucketCounts : table = new(n)
    /\ \E n \in BucketCounts : other = new(n)
    /\ last = Op("new", "none", 0, "none", new(0))
    /\ panicked = FALSE
    /\ cmp = NoCmp
    /\ history = NoHistory
    /\ TestIdle
    /\ RunIdle

\* the result of a difference borrows both tables, and so does a table its
\* elements were inserted into: while it is alive neither table can be mutated
Borrowed == last.op \in {"difference", "difference_iter", "reinsert"}

\* self.insert(value) / other.insert(value)
DInsert(which, value) ==
    /\ ~Borrowed
    /\ IF which = "self"
       THEN len(table) < MaxSelf /\ table' = insert(table, value).table /\ other' = other
       ELSE len(other) < MaxOther /\ other' = insert(other, value).table /\ table' = table
    /\ last' = Mutated
    /\ UNCHANGED <<strategy, panicked, cmp, history, test, runVars>>

\* self.remove(value) / other.remove(value)
DRemove(which, value) ==
    /\ ~Borrowed
    /\ IF which = "self"
       THEN table' = remove(table, value).table /\ other' = other
       ELSE other' = remove(other, value).table /\ table' = table
    /\ last' = Mutated
    /\ UNCHANGED <<strategy, panicked, cmp, history, test, runVars>>

\* self.rebuild(n, _) / other.rebuild(n, _)
DRebuild(which, n) ==
    /\ ~Borrowed
    /\ IF which = "self"
       THEN table' = rebuild(table, n) /\ other' = other
       ELSE other' = rebuild(other, n) /\ table' = table
    /\ last' = Mutated
    /\ UNCHANGED <<strategy, panicked, cmp, history, test, runVars>>

\* self.clear() / other.clear()
DClear(which) ==
    /\ ~Borrowed
    /\ IF which = "self"
       THEN table' = clear(table) /\ other' = other
       ELSE other' = clear(other) /\ table' = table
    /\ last' = Mutated
    /\ UNCHANGED <<strategy, panicked, cmp, history, test, runVars>>

\* self.difference(&other)
Difference ==
    /\ ~Borrowed
    /\ last' = Op("difference", "none", 0, difference(table, other), table)
    /\ UNCHANGED <<strategy, table, other, panicked, cmp, history, test, runVars>>

\* self.difference_iter(&other), walked to its end
DifferenceIter ==
    /\ ~Borrowed
    /\ last' = Op("difference_iter", "none", 0, difference_iter(table, other), table)
    /\ UNCHANGED <<strategy, table, other, panicked, cmp, history, test, runVars>>

\* the result of the difference goes out of scope
DropResult ==
    /\ Borrowed
    /\ last' = Mutated
    /\ UNCHANGED <<strategy, table, other, panicked, cmp, history, test, runVars>>

Which == {"self", "other"}

NextDiff ==
    \/ \E w \in Which, v \in Values(strategy) : DInsert(w, v)
    \/ \E w \in Which, v \in Values(strategy) : DRemove(w, v)
    \/ \E w \in Which, n \in BucketCounts : DRebuild(w, n)
    \/ \E w \in Which : DClear(w)
    \/ Difference
    \/ DifferenceIter
    \/ DropResult

SpecDiff == InitDiff /\ [][NextDiff]_vars

\* fresh.insert(item) for each item of a sequence, in order: the table
\* afterwards and the values returned
RECURSIVE InsertAll(_, _, _)
InsertAll(t, items, rets) ==
    IF items = <<>> THEN [table |-> t, rets |-> rets]
    ELSE LET r == insert(t, Head(items))
         IN  InsertAll(r.table, Tail(items), Append(rets, r.ret))

\* the elements of the result of self.difference(&other) are inserted into a
\* new table of n buckets with the same eq_fn and hash_fn
Reinsert(n) ==
    /\ last.op = "difference"
    /\ LET r == InsertAll(new(n), last.ret, <<>>)
       IN  last' = Op("reinsert", last.ret, n, r, table)
    /\ UNCHANGED <<strategy, table, other, panicked, cmp, history, test, runVars>>

NextReinsert ==
    \/ \E w \in Which, v \in Values(strategy) : DInsert(w, v)
    \/ \E w \in Which, v \in Values(strategy) : DRemove(w, v)
    \/ \E w \in Which, n \in BucketCounts : DRebuild(w, n)
    \/ \E w \in Which : DClear(w)
    \/ Difference
    \/ DropResult
    \/ \E n \in BucketCounts : Reinsert(n)

SpecReinsert == InitDiff /\ [][NextReinsert]_vars

\* C5: self.difference(other) holds an element e of self exactly when
\* other.contains(e) is false, each such element once; difference_iter(other)
\* yields the same elements in the same order.
C5_Difference ==
    /\ last.op \in {"difference", "difference_iter"} =>
          /\ \A e \in Stored(table) : (e \in Range(last.ret)) <=> ~contains(other, e)
          /\ Range(last.ret) \subseteq Stored(table)
          /\ Cardinality(Range(last.ret)) = Len(last.ret)
    /\ last.op = "difference" => last.ret = difference_iter(table, other)
    /\ last.op = "difference_iter" => last.ret = difference(table, other)

\* C5 witness: a difference that keeps one element of self and drops another,
\* which other holds as an equal but different record
C5_Witness ==
    /\ last.op = "difference"
    /\ Len(last.ret) = 1
    /\ len(table) = 2
    /\ \E e \in Stored(table) : contains(other, e) /\ e \notin Stored(other)

----------------------------------------------------------------------------
(* The comparison run: scan_and_check, scan_folder, show_results *)

\* each folder holds at most this many regular files
MaxFiles == 3

\* a regular file on disk: its name, its path, its length and the digest of its bytes
OnDisk(filename, path, size, digest) ==
    [filename |-> filename, path |-> path, size |-> size, hash |-> digest]

\* the files folder1 may hold; A/sub/a.txt is a copy of A/a.txt
CandidatesA ==
    {OnDisk("a.txt", "A/a.txt", 10, <<0, 1>>),
     OnDisk("b.txt", "A/b.txt", 20, <<1, 0>>),
     OnDisk("a.txt", "A/sub/a.txt", 10, <<0, 1>>)}

\* the files folder2 may hold; B/a.txt has the bytes of A/a.txt, B/d.txt those of A/b.txt
CandidatesB ==
    {OnDisk("a.txt", "B/a.txt", 10, <<0, 1>>),
     OnDisk("c.txt", "B/c.txt", 5, <<1, 1>>),
     OnDisk("a.txt", "B/sub/a.txt", 11, <<0, 2>>),
     OnDisk("d.txt", "B/d.txt", 20, <<1, 0>>)}

Trees(candidates) == {tree \in SUBSET candidates : Cardinality(tree) <= MaxFiles}

Configs == [comparer : FileStrategies, raw : BOOLEAN, firstonly : BOOLEAN, onethread : BOOLEAN]

\* mutant of NewFileData: the path is stored as the file name
NewFileData_PathAsName(comparer, f) ==
    [filename |-> f.path, path |-> f.path, size |-> f.size,
     hash |-> IF comparer = "Hash" THEN f.hash ELSE Sha2Default]

\* the FileData scan_folder builds for an entry: the digest only when comparing by Hash
NewFileData(comparer, f) ==
    [filename |-> f.filename, path |-> f.path, size |-> f.size,
     hash |-> IF comparer = "Hash" THEN f.hash ELSE Sha2Default]

\* scan_folder when no hash_file call fails: the entries of the walk, in the
\* order the walk yields them, inserted one by one into fileset
RECURSIVE scan_folder(_, _, _)
scan_folder(comparer, fileset, entries) ==
    IF entries = <<>> THEN fileset
    ELSE scan_folder(comparer,
                     HashSetInsert(comparer, fileset, NewFileData(comparer, Head(entries))),
                     Tail(entries))

\* the orders in which a HashSet may yield its elements
Orders(set) ==
    {seq \in [1 .. Cardinality(set) -> set] : \A i, j \in 1 .. Cardinality(set) : i # j => seq[i] # seq[j]}

\* the lines show_results prints for one direction
RECURSIVE PathLines(_)
PathLines(differences) ==
    IF differences = <<>> THEN <<>>
    ELSE <<[kind |-> "path", text |-> Head(differences).path]>> \o PathLines(Tail(differences))

show_results(differences, presentindir, absentindir, raw) ==
    (IF raw THEN <<>>
     ELSE <<[kind |-> "header", text |-> <<presentindir, absentindir>>]>>
          \o (IF differences = <<>> THEN <<[kind |-> "none", text |-> "None"]>> ELSE <<>>))
    \o PathLines(differences)
    \o (IF raw THEN <<>> ELSE <<[kind |-> "blank", text |-> ""]>>)

InitRun ==
    /\ main = MainIdle
    /\ strategy = "Name"
    /\ table = new(1)
    /\ other = new(1)
    /\ last = Op("new", "none", 0, "none", new(0))
    /\ panicked = FALSE
    /\ cmp = NoCmp
    /\ history = NoHistory
    /\ TestIdle
    /\ config \in Configs
    /\ \E a \in Trees(CandidatesA), b \in Trees(CandidatesB) : disk = <<a, b>>
    /\ \E oa \in Orders(disk[1]), ob \in Orders(disk[2]) : walk = <<oa, ob>>
    /\ todo = walk
    /\ hashed = <<<<>>, <<>>>>
    /\ scan = <<"idle", "idle">>
    /\ files1 = {}
    /\ files2 = {}
    /\ pc = "populate"
    /\ diff1 = <<>>
    /\ diff2 = <<>>
    /\ count = 0
    /\ stdout = <<>>

\* mutant of MayRun: with one thread the scan of folder2 does not wait for folder1
MayRun_NoOrder(b) ==
    /\ pc = "populate"
    /\ scan[b] \in {"idle", "running"}

\* branch b of the populate stage may take a step: in one-thread mode folder2
\* is scanned after scan_folder of folder1 has returned Ok
MayRun(b) ==
    /\ pc = "populate"
    /\ scan[b] \in {"idle", "running"}
    /\ (config.onethread /\ b = 2) => scan[1] = "ok"

\* mutant of ScanEntry: both scans insert into one shared set
ScanEntry_SharedSet(b, f) ==
    /\ MayRun(b)
    /\ todo[b] # <<>>
    /\ f = Head(todo[b])
    /\ todo' = [todo EXCEPT ![b] = Tail(@)]
    /\ hashed' = IF config.comparer = "Hash"
                 THEN [hashed EXCEPT ![b] = Append(@, f.path)]
                 ELSE hashed
    /\ scan' = [scan EXCEPT ![b] = "running"]
    /\ files1' = HashSetInsert(config.comparer, files1, NewFileData(config.comparer, f))
    /\ files2' = files2
    /\ UNCHANGED <<tableVars, cmp, history, test, main, config, disk, walk, pc, diff1, diff2, count, stdout>>

\* mutant of ScanEntry: hash_file is called whatever the comparison is
ScanEntry_AlwaysHashes(b, f) ==
    /\ MayRun(b)
    /\ todo[b] # <<>>
    /\ f = Head(todo[b])
    /\ todo' = [todo EXCEPT ![b] = Tail(@)]
    /\ hashed' = [hashed EXCEPT ![b] = Append(@, f.path)]
    /\ scan' = [scan EXCEPT ![b] = "running"]
    /\ IF b = 1
       THEN /\ files1' = HashSetInsert(config.comparer, files1, NewFileData(config.comparer, f))
            /\ files2' = files2
       ELSE /\ files2' = HashSetInsert(config.comparer, files2, NewFileData(config.comparer, f))
            /\ files1' = files1
    /\ UNCHANGED <<tableVars, cmp, history, test, main, config, disk, walk, pc, diff1, diff2, count, stdout>>

\* one iteration of the loop of scan_folder: the entry becomes a FileData and is inserted
ScanEntry(b, f) ==
    /\ MayRun(b)
    /\ todo[b] # <<>>
    /\ f = Head(todo[b])
    /\ todo' = [todo EXCEPT ![b] = Tail(@)]
    /\ hashed' = IF config.comparer = "Hash"
                 THEN [hashed EXCEPT ![b] = Append(@, f.path)]
                 ELSE hashed
    /\ scan' = [scan EXCEPT ![b] = "running"]
    /\ IF b = 1
       THEN /\ files1' = HashSetInsert(config.comparer, files1, NewFileData(config.comparer, f))
            /\ files2' = files2
       ELSE /\ files2' = HashSetInsert(config.comparer, files2, NewFileData(config.comparer, f))
            /\ files1' = files1
    /\ UNCHANGED <<tableVars, cmp, history, test, main, config, disk, walk, pc, diff1, diff2, count, stdout>>

\* one iteration of the loop of scan_folder in which hash_file fails: scan_folder returns the error
ScanEntryFail(b, f) ==
    /\ MayRun(b)
    /\ todo[b] # <<>>
    /\ f = Head(todo[b])
    /\ config.comparer = "Hash"
    /\ todo' = [todo EXCEPT ![b] = Tail(@)]
    /\ hashed' = [hashed EXCEPT ![b] = Append(@, f.path)]
    /\ scan' = [scan EXCEPT ![b] = "err"]
    /\ IF b = 1
       THEN files1' = {} /\ files2' = files2
       ELSE files2' = {} /\ files1' = files1
    /\ UNCHANGED <<tableVars, cmp, history, test, main, config, disk, walk, pc, diff1, diff2, count, stdout>>

\* the walk is over: scan_folder returns Ok(fileset)
ScanFinish(b) ==
    /\ MayRun(b)
    /\ todo[b] = <<>>
    /\ scan' = [scan EXCEPT ![b] = "ok"]
    /\ UNCHANGED <<tableVars, cmp, history, test, main, config, disk, walk, hashed, todo, files1, files2, pc, diff1, diff2, count, stdout>>

\* mutant of Populated: the result of the scan of folder2 is not awaited
Populated_NoJoin ==
    /\ pc = "populate"
    /\ scan[1] = "ok"
    /\ pc' = "diff1"
    /\ UNCHANGED <<tableVars, cmp, history, test, main, config, disk, walk, hashed, todo, scan, files1, files2, diff1, diff2, count, stdout>>

\* mutant of Populated: the error of a scan is dropped and its set taken as empty
Populated_IgnoreError ==
    /\ pc = "populate"
    /\ scan[1] \in {"ok", "err"}
    /\ scan[2] \in {"ok", "err"}
    /\ pc' = "diff1"
    /\ UNCHANGED <<tableVars, cmp, history, test, main, config, disk, walk, hashed, todo, scan, files1, files2, diff1, diff2, count, stdout>>

\* both scans returned Ok: files1 and files2 are bound
Populated ==
    /\ pc = "populate"
    /\ scan = <<"ok", "ok">>
    /\ pc' = "diff1"
    /\ UNCHANGED <<tableVars, cmp, history, test, main, config, disk, walk, hashed, todo, scan, files1, files2, diff1, diff2, count, stdout>>

\* a scan returned an error: the ? operator returns it from scan_and_check.
\* In one-thread mode this is right after the failed scan; after rayon::join
\* both closures have returned
PopulateFailed ==
    /\ pc = "populate"
    /\ IF config.onethread
       THEN scan[1] = "err" \/ (scan[1] = "ok" /\ scan[2] = "err")
       ELSE /\ scan[1] \in {"ok", "err"}
            /\ scan[2] \in {"ok", "err"}
            /\ "err" \in {scan[1], scan[2]}
    /\ pc' = "failed"
    /\ UNCHANGED <<tableVars, cmp, history, test, main, config, disk, walk, hashed, todo, scan, files1, files2, diff1, diff2, count, stdout>>

\* mutant of Diff1: the second difference follows also with firstonly
Diff1_AlwaysSecond ==
    /\ pc = "diff1"
    /\ \E d \in Orders(HashSetDifference(config.comparer, files1, files2)) :
          /\ diff1' = d
          /\ stdout' = stdout \o show_results(d, "folder1", "folder2", config.raw)
    /\ pc' = "diff2"
    /\ UNCHANGED <<tableVars, cmp, history, test, main, config, disk, walk, hashed, todo, scan, files1, files2, diff2, count>>

\* diff1 = files1.difference(&files2).collect(); show_results(&diff1, folder1, folder2)
Diff1 ==
    /\ pc = "diff1"
    /\ \E d \in Orders(HashSetDifference(config.comparer, files1, files2)) :
          /\ diff1' = d
          /\ stdout' = stdout \o show_results(d, "folder1", "folder2", config.raw)
    /\ pc' = IF config.firstonly THEN "count" ELSE "diff2"
    /\ UNCHANGED <<tableVars, cmp, history, test, main, config, disk, walk, hashed, todo, scan, files1, files2, diff2, count>>

\* diff2 = files2.difference(&files1).collect(); show_results(&diff2, folder2, folder1)
Diff2 ==
    /\ pc = "diff2"
    /\ \E d \in Orders(HashSetDifference(config.comparer, files2, files1)) :
          /\ diff2' = d
          /\ stdout' = stdout \o show_results(d, "folder2", "folder1", config.raw)
    /\ pc' = "count"
    /\ UNCHANGED <<tableVars, cmp, history, test, main, config, disk, walk, hashed, todo, scan, files1, files2, diff1, count>>

\* count is bound and, unless raw, printed; scan_and_check returns Ok
Count ==
    /\ pc = "count"
    /\ count' = IF config.firstonly THEN Len(diff1) ELSE Len(diff1) + Len(diff2)
    /\ stdout' = IF config.raw THEN stdout
                 ELSE Append(stdout, [kind |-> "count", text |-> count'])
    /\ pc' = "done"
    /\ UNCHANGED <<tableVars, cmp, history, test, main, config, disk, walk, hashed, todo, scan, files1, files2, diff1, diff2>>

Branches == {1, 2}

NextRun ==
    \/ \E b \in Branches : \E f \in disk[b] : ScanEntry(b, f)
    \/ \E b \in Branches : \E f \in disk[b] : ScanEntryFail(b, f)
    \/ \E b \in Branches : ScanFinish(b)
    \/ Populated
    \/ PopulateFailed
    \/ Diff1
    \/ Diff2
    \/ Count

SpecRun == InitRun /\ [][NextRun]_vars

\* the run with progress: the thread of scan_and_check and the two closures
\* of rayon::join keep running until they return
SpecRunFair == SpecRun /\ WF_vars(NextRun)

----------------------------------------------------------------------------
(* Properties of the comparison run *)

\* two files on disk are the same file under the selected identity as the
\* claim names it: name, name and size, or digest
SameIdentity(f, g) ==
    CASE config.comparer = "Name"     -> f.filename = g.filename
      [] config.comparer = "NameSize" -> f.filename = g.filename /\ f.size = g.size
      [] config.comparer = "Hash"     -> f.hash = g.hash

\* two files on disk are the same file under the selected identity as the
\* markers compare it: name, name and size, or digest and size
SameComparedIdentity(f, g) ==
    CASE config.comparer = "Name"     -> f.filename = g.filename
      [] config.comparer = "NameSize" -> f.filename = g.filename /\ f.size = g.size
      [] config.comparer = "Hash"     -> f.hash = g.hash /\ f.size = g.size

\* the paths handed to show_results
Reported(differences) == {differences[i].path : i \in 1 .. Len(differences)}

\* the sequence handed to reporting holds exactly the unmatched files of the source
ExactlyUnmatched(differences, source, target) ==
    \A f \in source :
        (f.path \in Reported(differences)) <=> ~(\E g \in target : SameIdentity(f, g))

\* the sequence handed to reporting holds files of the source only, none of
\* them matched, and for every unmatched file of the source exactly one file
\* equal to it (the file itself or another file of the source)
OnePerUnmatchedIdentity(differences, source, target) ==
    /\ Reported(differences) \subseteq {f.path : f \in source}
    /\ Cardinality(Reported(differences)) = Len(differences)
    /\ \A f \in source :
          f.path \in Reported(differences) => ~(\E g \in target : SameComparedIdentity(f, g))
    /\ \A f \in source :
          ~(\E g \in target : SameComparedIdentity(f, g)) =>
             Cardinality({g \in source : g.path \in Reported(differences)
                                         /\ SameComparedIdentity(f, g)}) = 1

\* diff1 has been handed to show_results
Diff1Shown == pc \in {"diff2", "count", "done"}

\* diff2 has been handed to show_results
Diff2Shown == pc \in {"count", "done"} /\ ~config.firstonly

----------------------------------------------------------------------------
(* Stages of the comparison run *)

\* the first difference has been computed or is about to be
PastPopulate == pc \in {"diff1", "diff2", "count", "done"}

\* C11: the difference of folder1 against folder2 is computed only after the
\* scans of both folders have returned Ok, with one thread or two; with one
\* thread the scan of folder2 starts only after the scan of folder1 has
\* returned.
C11_PopulateBeforeDiff ==
    /\ PastPopulate => scan = <<"ok", "ok">> /\ todo = <<<<>>, <<>>>>
    /\ (diff1 # <<>> \/ diff2 # <<>> \/ stdout # <<>>) => scan = <<"ok", "ok">>
    /\ config.onethread =>
          ((scan[2] # "idle" \/ files2 # {} \/ todo[2] # walk[2]) =>
              scan[1] = "ok" /\ todo[1] = <<>>)

\* C11 witness: a one-thread run that has scanned several files of each
\* folder and is about to compute the first difference
C11_Witness ==
    /\ pc = "diff1"
    /\ config.onethread
    /\ Len(walk[1]) >= 2
    /\ Len(walk[2]) >= 2
    /\ files1 # {}
    /\ files2 # {}

\* a scan has returned an error
ScanFailed == "err" \in {scan[1], scan[2]}

\* nothing has been computed or printed by scan_and_check
NothingReported == diff1 = <<>> /\ diff2 = <<>> /\ count = 0 /\ stdout = <<>>

\* C12: when the scan of either folder fails, with one thread or two, the
\* run ends in failure: no difference of either direction is computed or
\* printed and no count, the failed scan is not started again, and the run
\* reaches its failed end.
C12_FailureReportsNothing ==
    /\ [](ScanFailed => pc \in {"populate", "failed"} /\ NothingReported)
    /\ [](pc = "failed" => ScanFailed)
    /\ [][/\ \A b \in Branches : scan[b] = "err" => scan'[b] = "err" /\ todo'[b] = todo[b]
          /\ pc # "failed"]_vars
    /\ (ScanFailed ~> pc = "failed")

\* C12 witness: with two threads the scan of folder1 returned a non-empty
\* set, the scan of folder2 failed, and the run has ended in failure
C12_Witness ==
    /\ pc = "failed"
    /\ ~config.onethread
    /\ scan = <<"ok", "err">>
    /\ files1 # {}
    /\ Len(walk[2]) >= 2

\* everything scan_and_check prints when the differences are yielded as d1 and d2
Output(d1, d2) ==
    show_results(d1, "folder1", "folder2", config.raw)
    \o (IF config.firstonly THEN <<>> ELSE show_results(d2, "folder2", "folder1", config.raw))
    \o (IF config.raw THEN <<>>
        ELSE <<[kind |-> "count",
                text |-> IF config.firstonly THEN Len(d1) ELSE Len(d1) + Len(d2)]>>)

\* C13: for the same two folders (the same files, yielded by each walk in the
\* same order) and the same comparison, a run with two threads, under every
\* interleaving of the two scans, and a run with one thread end with the
\* same differences in both directions and the same count: both equal what
\* scanning folder1 and then folder2 in series gives, and the output is the
\* same up to the order of the lines of a direction.
C13_ParallelEqualsSerial ==
    pc = "done" =>
        LET s1 == scan_folder(config.comparer, {}, walk[1])
            s2 == scan_folder(config.comparer, {}, walk[2])
            e1 == HashSetDifference(config.comparer, s1, s2)
            e2 == IF config.firstonly THEN {} ELSE HashSetDifference(config.comparer, s2, s1)
        IN  /\ files1 = s1
            /\ files2 = s2
            /\ Range(diff1) = e1 /\ Len(diff1) = Cardinality(e1)
            /\ Range(diff2) = e2 /\ Len(diff2) = Cardinality(e2)
            /\ count = Cardinality(e1) + Cardinality(e2)
            /\ \E d1 \in Orders(e1), d2 \in Orders(e2) : stdout = Output(d1, d2)

\* C13 witness: a run with two threads has ended with differences in both
\* directions, and folder1 holds files that are equal to each other
C13_Witness ==
    /\ pc = "done"
    /\ ~config.onethread
    /\ ~config.firstonly
    /\ Len(diff1) >= 1
    /\ Len(diff2) >= 2
    /\ Cardinality(files1) < Len(walk[1])

\* C14: for the files found under each folder, the records stored in the
\* sets and the reported differences are the same for every order in which
\* the walks yield those files, also when files of one folder are equal under
\* the selected identity and differ in their paths.
C14_ContentIndependentOfOrder ==
    pc = "done" =>
        \A o1 \in Orders(disk[1]), o2 \in Orders(disk[2]) :
            LET s1 == scan_folder(config.comparer, {}, o1)
                s2 == scan_folder(config.comparer, {}, o2)
            IN  /\ files1 = s1
                /\ files2 = s2
                /\ Reported(diff1) = {x.path : x \in HashSetDifference(config.comparer, s1, s2)}
                /\ ~config.firstonly =>
                      Reported(diff2) = {x.path : x \in HashSetDifference(config.comparer, s2, s1)}

\* branch b of the populate stage takes a step
BranchSteps(b) == todo'[b] # todo[b] \/ scan'[b] # scan[b]

\* C15: each set is changed only by the scan of its own folder: a step of the
\* scan of folder1 leaves files2 as it is and a step of the scan of folder2
\* leaves files1 as it is; once both scans have returned neither set changes
\* for the rest of the run; computing a difference, in either direction,
\* with the membership tests it makes, leaves both sets as they are.
C15_SetsOwnedByTheirScan ==
    [][/\ BranchSteps(1) => files2' = files2
       /\ BranchSteps(2) => files1' = files1
       /\ files1' # files1 => pc = "populate" /\ BranchSteps(1) /\ ~BranchSteps(2)
       /\ files2' # files2 => pc = "populate" /\ BranchSteps(2) /\ ~BranchSteps(1)
       /\ (PastPopulate \/ scan = <<"ok", "ok">>) => files1' = files1 /\ files2' = files2
       /\ (diff1' # diff1 \/ diff2' # diff2 \/ pc \in {"diff1", "diff2"}) =>
             files1' = files1 /\ files2' = files2]_vars

\* C15 witness: a run with two threads has filled both sets and computed a
\* non-empty difference in each direction
C15_Witness ==
    /\ pc = "count"
    /\ ~config.onethread
    /\ Cardinality(files1) >= 2
    /\ Cardinality(files2) >= 2
    /\ Len(diff1) >= 1
    /\ Len(diff2) >= 1

----------------------------------------------------------------------------
(* Further properties of the table under test *)

\* C16: for every non-empty table reached by insert, remove and rebuild, the
\* difference of the table from itself is empty.
C16_SelfDifferenceEmpty ==
    /\ (last.op = "difference" /\ last.value = "self") => last.ret = <<>>
    /\ ~is_empty(table) => difference(table, table) = <<>> /\ difference_iter(table, table) = <<>>

\* C16 witness: the difference from itself of a table of several buckets, two
\* of them holding elements, has been taken
C16_Witness ==
    /\ last.op = "difference"
    /\ last.value = "self"
    /\ len(table) >= 2
    /\ empty_buckets(table) + 2 <= table.buckets_required

\* C17: for any two tables with the same strategy, inserting the elements of
\* self.difference(other) into a new empty table with that strategy returns
\* true for every element and gives a table that holds exactly the elements
\* of self that other does not contain: its len is the length of the
\* difference, nothing twice and nothing left out.
C17_ReinsertReproduces ==
    last.op = "reinsert" =>
        LET fresh == last.ret.table
        IN  /\ Len(last.ret.rets) = Len(last.value)
            /\ \A i \in 1 .. Len(last.ret.rets) : last.ret.rets[i] = TRUE
            /\ len(fresh) = Len(last.value)
            /\ Cardinality(Stored(fresh)) = len(fresh)
            /\ Stored(fresh) = {e \in Stored(table) : ~contains(other, e)}
            /\ \A e \in Stored(table) : contains(fresh, e) <=> ~contains(other, e)
            /\ fresh.buckets_required = last.n

\* C17 witness: a difference of two elements that share a bucket of the new
\* table was inserted, self holding also an element that other contains
C17_Witness ==
    /\ last.op = "reinsert"
    /\ Len(last.value) = 2
    /\ \E i \in 1 .. Len(last.ret.table.buckets) : Len(last.ret.table.buckets[i]) = 2
    /\ len(other) >= 1

\* the indices of the buckets of t that hold e
BucketsOf(t, e) == {i \in 1 .. Len(t.buckets) : e \in Range(t.buckets[i])}

\* an element stored before and after the last operation is in another bucket
Moved == \E e \in Stored(table) \cap Stored(last.before) : BucketsOf(table, e) # BucketsOf(last.before, e)

\* C18: the bucket count, and the length of the bucket array, is left as it
\* was by insert, remove, clear, contains, difference and the diagnostics
\* (and by len and is_empty); it changes only in a rebuild, and only a
\* rebuild moves a stored element to another bucket.
C18_BucketCountFrame ==
    /\ last.op \in {"insert", "remove", "clear", "contains", "difference", "diagnostics",
                    "len", "is_empty"} =>
          /\ table.buckets_required = last.before.buckets_required
          /\ Len(table.buckets) = Len(last.before.buckets)
          /\ ~Moved
    /\ last.op \in {"contains", "difference", "diagnostics", "len", "is_empty"} =>
          table = last.before
    /\ (last.op # "new" /\ (table.buckets_required # last.before.buckets_required
                            \/ Len(table.buckets) # Len(last.before.buckets)
                            \/ Moved)) => last.op = "rebuild"

\* C18 witness: an insert into a bucket that already holds an element has
\* filled the table of several buckets, and the bucket count is as before
C18_Witness ==
    /\ last.op = "insert"
    /\ last.ret = TRUE
    /\ len(table) = MaxLen
    /\ table.buckets_required >= 2
    /\ Len(table.buckets[BucketIndex(table, last.value)]) >= 2

----------------------------------------------------------------------------
(* main: the command line, parse_comparer, the call of scan_and_check *)

\* mutant of to_ascii_lowercase: the character is left as it is
to_ascii_lowercase_Keep(c) == c

\* u8::to_ascii_lowercase: the letters A to Z are mapped, every other byte is kept
to_ascii_lowercase(c) ==
    CASE c = "N" -> "n" [] c = "A" -> "a" [] c = "M" -> "m" [] c = "E" -> "e"
      [] c = "S" -> "s" [] c = "I" -> "i" [] c = "Z" -> "z" [] c = "H" -> "h"
      [] OTHER -> c

\* str::eq_ignore_ascii_case
eq_ignore_ascii_case(a, b) ==
    /\ Len(a) = Len(b)
    /\ \A i \in 1 .. Len(a) : to_ascii_lowercase(a[i]) = to_ascii_lowercase(b[i])

\* the serialize strings of FileDataCompareOption, as sequences of characters
SerializeName == <<"n", "a", "m", "e">>
SerializeNameSize == <<"n", "a", "m", "e", "s", "i", "z", "e">>
SerializeHash == <<"h", "a", "s", "h">>

\* FileDataCompareOption::from_str, derived by EnumString with ascii_case_insensitive
from_str(s) ==
    IF eq_ignore_ascii_case(s, SerializeName) THEN [ok |-> TRUE, value |-> "Name"]
    ELSE IF eq_ignore_ascii_case(s, SerializeNameSize) THEN [ok |-> TRUE, value |-> "NameSize"]
    ELSE IF eq_ignore_ascii_case(s, SerializeHash) THEN [ok |-> TRUE, value |-> "Hash"]
    ELSE [ok |-> FALSE, value |-> "VariantNotFound"]

\* parse_comparer: None or "" is Name, any other string goes to from_str
parse_comparer(compstr) ==
    IF compstr.kind = "absent" \/ compstr.s = <<>>
    THEN [ok |-> TRUE, value |-> "Name"]
    ELSE from_str(compstr.s)

\* the strings given to -c / --comparison; "U+0130" stands for the one
\* character LATIN CAPITAL LETTER I WITH DOT ABOVE, which is not ASCII
Tokens ==
    {<<>>,
     <<"n", "a", "m", "e">>, <<"N", "A", "M", "E">>, <<"N", "a", "m", "e">>, <<"n", "A", "m", "E">>,
     <<"n", "a", "m", "e", "s", "i", "z", "e">>, <<"N", "a", "m", "e", "S", "i", "z", "e">>,
     <<"N", "A", "M", "E", "S", "I", "Z", "E">>, <<"n", "a", "M", "E", "s", "I", "z", "e">>,
     <<"h", "a", "s", "h">>, <<"H", "a", "s", "h">>, <<"H", "A", "S", "H">>, <<"h", "A", "s", "H">>,
     <<"n", "a", "m">>, <<"n", "a", "m", "e", "s">>, <<"s", "i", "z", "e">>,
     <<"h", "a", "s", "h", " ">>, <<" ", "n", "a", "m", "e">>, <<" ">>,
     <<"n", "a", "m", "e", "_", "s", "i", "z", "e">>, <<"n", "a", "m", "e", "h", "a", "s", "h">>,
     <<"N", "A", "M", "E", "S", "U+0130", "Z", "E">>, <<"h", "@", "s", "h">>, <<"s", "h", "a">>}

\* the option -c: not given, given as the last argument without a value, or given with a string
CompStrs ==
    {NoCompStr, [kind |-> "novalue", s |-> <<>>]} \cup {[kind |-> "some", s |-> t] : t \in Tokens}

\* the values of -a and -b: not given, an existing folder, or a path that does not exist
FolderArgs == {"none", "A", "A/.", "B", "missing"}

\* Path::canonicalize
canonicalize(path) ==
    CASE path = "A"   -> [ok |-> TRUE, value |-> "A"]
      [] path = "A/." -> [ok |-> TRUE, value |-> "A"]
      [] path = "B"   -> [ok |-> TRUE, value |-> "B"]
      [] OTHER        -> [ok |-> FALSE, value |-> "No such file or directory"]

\* the regular files under an existing folder
FolderTree(folder) ==
    IF folder = "A"
    THEN {OnDisk("a.txt", "A/a.txt", 10, <<0, 1>>), OnDisk("b.txt", "A/b.txt", 20, <<1, 0>>)}
    ELSE {OnDisk("a.txt", "B/a.txt", 10, <<0, 1>>), OnDisk("c.txt", "B/c.txt", 5, <<1, 1>>),
          OnDisk("a.txt", "B/sub/a.txt", 11, <<0, 2>>)}

\* the regular files under the path given to -a or -b
TreeOf(path) == IF canonicalize(path).ok THEN FolderTree(canonicalize(path).value) ELSE {}

CommandLines ==
    [raw : BOOLEAN, help : BOOLEAN, foldera : FolderArgs, folderb : FolderArgs,
     compstr : CompStrs, firstonly : BOOLEAN, onethread : BOOLEAN, unused : BOOLEAN]

\* the lines main prints before anything else, unless raw
Banner(raw) ==
    IF raw THEN <<>>
    ELSE <<[kind |-> "banner", text |-> "Folder_comparer Rust"], [kind |-> "blank", text |-> ""]>>

\* main up to the call of scan_and_check, or to its return when it does not call it
Main ==
    /\ main.pc = "start"
    /\ LET a == main.args
           compareropt == parse_comparer(a.compstr)
           folder1 == canonicalize(a.foldera)
           folder2 == canonicalize(a.folderb)
           Return(result, copt, out) ==
               /\ main' = [main EXCEPT !.pc = "returned", !.result = result, !.compareropt = copt]
               /\ stdout' = out
               /\ UNCHANGED <<config, pc>>
       IN  IF a.help
           THEN Return("Ok", "none", Banner(a.raw) \o <<[kind |-> "help", text |-> "USAGE"]>>)
           ELSE IF a.foldera = "none"
           THEN Return("the required option -a is missing", "none", Banner(a.raw))
           ELSE IF a.folderb = "none"
           THEN Return("the required option -b is missing", "none", Banner(a.raw))
           ELSE IF a.compstr.kind = "novalue"
           THEN Return("the option -c has no value", "none", Banner(a.raw))
           ELSE IF ~compareropt.ok
           THEN Return("Comparison should be Name, NameSize or Hash", compareropt, Banner(a.raw))
           ELSE IF ~folder1.ok
           THEN Return(folder1.value, compareropt, Banner(a.raw))
           ELSE IF ~folder2.ok
           THEN Return(folder2.value, compareropt, Banner(a.raw))
           ELSE IF a.unused
           THEN Return("Unused arguments", compareropt, Banner(a.raw))
           ELSE IF folder1.value = folder2.value
           THEN Return("Folders should not be the same", compareropt, Banner(a.raw))
           ELSE /\ main' = [main EXCEPT !.pc = "called", !.compareropt = compareropt]
                /\ config' = [comparer |-> compareropt.value, raw |-> a.raw,
                              firstonly |-> a.firstonly, onethread |-> a.onethread]
                /\ stdout' = Banner(a.raw) \o
                             (IF a.raw THEN <<>>
                              ELSE <<[kind |-> "comparing", text |-> <<folder1.value, folder2.value, compareropt.value>>],
                                     [kind |-> "blank", text |-> ""]>>)
                /\ pc' = "populate"
    /\ UNCHANGED <<tableVars, cmp, history, test, disk, walk, hashed, todo, scan, files1, files2, diff1, diff2, count>>

\* scan_and_check has returned: main returns its error, or Ok
MainReturn ==
    /\ main.pc = "called"
    /\ pc \in {"done", "failed"}
    /\ main' = [main EXCEPT !.pc = "returned",
                            !.result = IF pc = "done" THEN "Ok" ELSE "hash_file failed"]
    /\ UNCHANGED <<tableVars, cmp, history, test, config, disk, walk, hashed, todo, scan, files1, files2, pc,
                   diff1, diff2, count, stdout>>

InitMain ==
    /\ strategy = "Name"
    /\ table = new(1)
    /\ other = new(1)
    /\ last = Op("new", "none", 0, "none", new(0))
    /\ panicked = FALSE
    /\ cmp = NoCmp
    /\ history = NoHistory
    /\ TestIdle
    /\ \E a \in CommandLines :
          main = [pc |-> "start", args |-> a, compareropt |-> "none", result |-> "none"]
    /\ config = [comparer |-> "Name", raw |-> FALSE, firstonly |-> FALSE, onethread |-> FALSE]
    /\ disk = <<TreeOf(main.args.foldera), TreeOf(main.args.folderb)>>
    /\ \E oa \in Orders(disk[1]), ob \in Orders(disk[2]) : walk = <<oa, ob>>
    /\ todo = walk
    /\ hashed = <<<<>>, <<>>>>
    /\ scan = <<"idle", "idle">>
    /\ files1 = {}
    /\ files2 = {}
    /\ pc = "idle"
    /\ diff1 = <<>>
    /\ diff2 = <<>>
    /\ count = 0
    /\ stdout = <<>>

NextMain ==
    \/ Main
    \/ NextRun
    \/ MainReturn

SpecMain == InitMain /\ [][NextMain]_vars

\* the capital of a letter of the three tokens
Capital(c) ==
    CASE c = "n" -> "N" [] c = "a" -> "A" [] c = "m" -> "M" [] c = "e" -> "E"
      [] c = "s" -> "S" [] c = "i" -> "I" [] c = "z" -> "Z" [] c = "h" -> "H"

\* s is word with each letter in either case
InAnyCase(s, word) ==
    /\ Len(s) = Len(word)
    /\ \A i \in 1 .. Len(word) : s[i] \in {word[i], Capital(word[i])}

\* what the value of -c is to be parsed to
Expected(compstr) ==
    IF compstr.kind = "absent" \/ compstr.s = <<>> THEN "Name"
    ELSE IF InAnyCase(compstr.s, <<"n", "a", "m", "e">>) THEN "Name"
    ELSE IF InAnyCase(compstr.s, <<"n", "a", "m", "e", "s", "i", "z", "e">>) THEN "NameSize"
    ELSE IF InAnyCase(compstr.s, <<"h", "a", "s", "h">>) THEN "Hash"
    ELSE "error"

\* main gets as far as parse_comparer
ReachesParse ==
    /\ ~main.args.help
    /\ main.args.foldera # "none"
    /\ main.args.folderb # "none"
    /\ main.args.compstr.kind # "novalue"

\* C19: the tokens name, namesize and hash are accepted in any letter case and
\* give Name, NameSize and Hash; an absent or empty value gives Name; every
\* other token gives an error, and then main fails without scanning a folder.
C19_ComparerParsing ==
    LET c == main.args.compstr
        r == parse_comparer(c)
    IN  /\ main.pc # "idle" /\ c.kind # "novalue" =>
              /\ r.ok <=> Expected(c) # "error"
              /\ r.ok => r.value = Expected(c)
        /\ (main.pc \in {"called", "returned"} /\ ReachesParse) => main.compareropt = r
        /\ main.pc = "called" => config.comparer = Expected(c)
        /\ (main.pc # "idle" /\ Expected(c) = "error" /\ c.kind # "novalue") =>
              /\ main.pc # "called"
              /\ pc = "idle"
              /\ scan = <<"idle", "idle">>
              /\ todo = walk
              /\ files1 = {} /\ files2 = {}
              /\ (main.pc = "returned" /\ ReachesParse) =>
                    main.result = "Comparison should be Name, NameSize or Hash"

\* C19 witness: -c NaMEsIze was given and the run has ended after comparing by name and size
C19_Witness ==
    /\ main.pc = "returned"
    /\ main.result = "Ok"
    /\ main.args.compstr = [kind |-> "some", s |-> <<"n", "a", "M", "E", "s", "I", "z", "e">>]
    /\ config.comparer = "NameSize"
    /\ pc = "done"
    /\ Len(diff2) = 2

----------------------------------------------------------------------------
(* The stages after the scans *)

\* a line of the block of the second direction has been printed
SecondDirectionPrinted ==
    \E i \in 1 .. Len(stdout) :
        \/ stdout[i].kind = "header" /\ stdout[i].text = <<"folder2", "folder1">>
        \/ stdout[i].kind = "path" /\ stdout[i].text \in {f.path : f \in disk[2]}

\* C20: without firstonly the difference of folder1 against folder2 is
\* computed and shown, then the difference of folder2 against folder1, and
\* the count is the sum of their lengths; with firstonly the second
\* difference is never computed or shown and the count is the length of the
\* first; the count is the last thing computed (and, unless raw, printed),
\* after which the run ends with no further step.
C20_StagesAndCount ==
    /\ [](config.firstonly => pc # "diff2" /\ diff2 = <<>> /\ ~SecondDirectionPrinted)
    /\ [](pc = "diff2" => stdout = show_results(diff1, "folder1", "folder2", config.raw))
    /\ [](pc = "count" => /\ count = 0
                          /\ stdout = show_results(diff1, "folder1", "folder2", config.raw)
                                      \o (IF config.firstonly THEN <<>>
                                          ELSE show_results(diff2, "folder2", "folder1", config.raw)))
    /\ [](pc = "done" => /\ count = IF config.firstonly THEN Len(diff1) ELSE Len(diff1) + Len(diff2)
                         /\ Range(diff1) = HashSetDifference(config.comparer, files1, files2)
                         /\ ~config.firstonly => Range(diff2) = HashSetDifference(config.comparer, files2, files1)
                         /\ stdout = Output(diff1, diff2))
    /\ [][/\ pc # "done"
          /\ pc' = "diff2" => pc = "diff1" /\ ~config.firstonly
          /\ pc' = "count" => pc = (IF config.firstonly THEN "diff1" ELSE "diff2")
          /\ pc' = "done" => pc = "count"]_vars
    /\ (pc = "diff1" ~> pc = "done")

\* C20 witness: a run with firstonly has ended with a count of at least one
\* while folder2 holds a file that folder1 does not
C20_Witness ==
    /\ pc = "done"
    /\ config.firstonly
    /\ count >= 1
    /\ HashSetDifference(config.comparer, files2, files1) # {}
    /\ diff2 = <<>>

----------------------------------------------------------------------------
(* The digest of the file contents *)

\* the paths of the entries branch b has taken from its walk so far
ScannedPaths(b) ==
    [i \in 1 .. (Len(walk[b]) - Len(todo[b])) |-> walk[b][i].path]

\* C21: in a run comparing by Name or NameSize hash_file is never called for
\* a file of either folder and every record carries the default digest; in a
\* run comparing by Hash it is called once for each file the scan takes from
\* the walk, and for no other.
C21_DigestOnlyForHash ==
    /\ config.comparer \in {"Name", "NameSize"} =>
          /\ hashed = <<<<>>, <<>>>>
          /\ \A x \in files1 \cup files2 : x.hash = Sha2Default
    /\ config.comparer = "Hash" =>
          /\ \A b \in Branches :
                /\ Len(hashed[b]) = Len(walk[b]) - Len(todo[b])
                /\ \A i \in 1 .. Len(hashed[b]) : hashed[b][i] = ScannedPaths(b)[i]
                /\ Cardinality(Range(hashed[b])) = Len(hashed[b])
          /\ \A x \in files1 : \E f \in disk[1] : f.path = x.path /\ x.hash = f.hash
          /\ \A x \in files2 : \E f \in disk[2] : f.path = x.path /\ x.hash = f.hash

\* C21 witness: a run comparing by NameSize has ended after scanning several
\* files of each folder, without a call of hash_file
C21_Witness ==
    /\ pc = "done"
    /\ config.comparer = "NameSize"
    /\ Len(walk[1]) >= 2
    /\ Len(walk[2]) >= 2
    /\ hashed = <<<<>>, <<>>>>
    /\ Cardinality(files1) >= 2

----------------------------------------------------------------------------
(* A run by name and size over given folders *)

\* folder1 holds a.txt (10 bytes) and b.txt (20 bytes)
ExampleA ==
    {OnDisk("a.txt", "A/a.txt", 10, <<0, 1>>), OnDisk("b.txt", "A/b.txt", 20, <<1, 0>>)}

\* folder2 holds a.txt (10 bytes), c.txt (5 bytes) and another a.txt (11 bytes)
ExampleB ==
    {OnDisk("a.txt", "B/a.txt", 10, <<0, 1>>), OnDisk("c.txt", "B/c.txt", 5, <<1, 1>>),
     OnDisk("a.txt", "B/sub/a.txt", 11, <<0, 2>>)}

\* folder2 holds c.txt (5 bytes) and a.txt with 11 bytes in place of 10
ExampleBResized ==
    {OnDisk("c.txt", "B/c.txt", 5, <<1, 1>>), OnDisk("a.txt", "B/sub/a.txt", 11, <<0, 2>>)}

\* a run by name and size over folder1 and the given folder2 has ended
ExampleEnded(b) ==
    /\ pc = "done"
    /\ config.comparer = "NameSize"
    /\ ~config.firstonly
    /\ disk = <<ExampleA, b>>

\* a file named a.txt is in the sequence
HasATxt(differences) == \E i \in 1 .. Len(differences) : differences[i].filename = "a.txt"

\* C22 as stated: by name and size, with a.txt (10 bytes) and b.txt (20 bytes)
\* in folder1 and a.txt (10 bytes), c.txt (5 bytes) and a further a.txt (11
\* bytes) in folder2, a.txt is in the difference of each direction.
C22_ATxtInBothDiffs ==
    ExampleEnded(ExampleB) => HasATxt(diff1) /\ HasATxt(diff2)

\* C22 amended: with those folders the difference of folder1 against folder2
\* holds b.txt only, a.txt (10 bytes) having an equal file in folder2, and the
\* difference of folder2 against folder1 holds c.txt and the a.txt of 11
\* bytes; the count is 3. a.txt is in both differences when the a.txt of
\* folder2 has 11 bytes in place of 10.
C22_ATxtInSecondDiffOnly ==
    /\ ExampleEnded(ExampleB) =>
          /\ Reported(diff1) = {"A/b.txt"}
          /\ Reported(diff2) = {"B/c.txt", "B/sub/a.txt"}
          /\ ~HasATxt(diff1) /\ HasATxt(diff2)
          /\ count = 3
    /\ ExampleEnded(ExampleBResized) =>
          /\ Reported(diff1) = {"A/a.txt", "A/b.txt"}
          /\ Reported(diff2) = {"B/c.txt", "B/sub/a.txt"}
          /\ HasATxt(diff1) /\ HasATxt(diff2)
          /\ count = 4

\* C22 witness: the run over the folders of the example has ended
C22_Witness ==
    /\ ExampleEnded(ExampleB)
    /\ Len(diff1) = 1
    /\ Len(diff2) = 2

----------------------------------------------------------------------------
(* len, is_empty, clear and remove of the table under test *)

\* C23: len() is the sum of the sizes of the buckets and is_empty() is true
\* exactly when len() is 0; after clear() every bucket is empty (len() is 0,
\* is_empty() is true, contains(v) is false for every v), the bucket count is
\* as before, and a value inserted afterwards is placed and found as in a
\* newly constructed table.
C23_LenIsEmptyClear ==
    /\ len(table) = Cardinality(Slots(table))
    /\ is_empty(table) <=> len(table) = 0
    /\ last.op = "len" => last.ret = Cardinality(Slots(last.before))
    /\ last.op = "is_empty" => (last.ret <=> Slots(last.before) = {})
    /\ last.op = "clear" =>
          /\ \A i \in 1 .. Len(table.buckets) : table.buckets[i] = <<>>
          /\ len(table) = 0
          /\ is_empty(table)
          /\ \A v \in Values(strategy) : ~contains(table, v)
          /\ table.buckets_required = last.before.buckets_required
          /\ Len(table.buckets) = Len(last.before.buckets)
          /\ table = new(last.before.buckets_required)
          /\ \A v \in Values(strategy) :
                LET r == insert(table, v)
                IN  /\ r = insert(new(last.before.buckets_required), v)
                    /\ r.ret = TRUE
                    /\ contains(r.table, v)
                    /\ r.table.buckets[BucketIndex(table, v)] = <<v>>
                    /\ len(r.table) = 1

\* C23 witness: a full table of several buckets, two of them holding
\* elements, has been cleared
C23_Witness ==
    /\ last.op = "clear"
    /\ len(last.before) = MaxLen
    /\ table.buckets_required >= 2
    /\ empty_buckets(last.before) + 2 <= table.buckets_required

\* the positions of bucket that hold an element equal to value
EqualAt(bucket, value) == {k \in 1 .. Len(bucket) : eq_fn(bucket[k], value)}

\* the least number of a non-empty set of numbers
Least(S) == CHOOSE k \in S : \A j \in S : k <= j

\* C24: remove(value) returns true exactly when the bucket at index
\* hash_fn(value) mod bucket_count holds an element equal to value; then the
\* first such element of that bucket is deleted and nothing else, the other
\* elements of the bucket keep their order and every other bucket is as it
\* was; otherwise the table is as it was.
C24_RemoveContract ==
    last.op = "remove" =>
        LET t == last.before
            index == BucketIndex(t, last.value)
            bucket == t.buckets[index]
            found == EqualAt(bucket, last.value)
        IN  /\ last.ret \in BOOLEAN
            /\ last.ret <=> found # {}
            /\ found = {} => table = t
            /\ found # {} =>
                  LET p == Least(found)
                      after == table.buckets[index]
                  IN  /\ Len(after) = Len(bucket) - 1
                      /\ \A k \in 1 .. Len(after) :
                            after[k] = IF k < p THEN bucket[k] ELSE bucket[k + 1]
                      /\ \A j \in 1 .. Len(t.buckets) : j # index => table.buckets[j] = t.buckets[j]
                      /\ Len(table.buckets) = Len(t.buckets)
                      /\ table.buckets_required = t.buckets_required

\* C24 witness: an element that is not the last of a bucket of three was
\* removed by a value equal to it but not the same record
C24_Witness ==
    /\ last.op = "remove"
    /\ last.ret = TRUE
    /\ LET bucket == last.before.buckets[BucketIndex(last.before, last.value)]
       IN  /\ Len(bucket) = 3
           /\ Least(EqualAt(bucket, last.value)) < 3
           /\ bucket[Least(EqualAt(bucket, last.value))] # last.value

----------------------------------------------------------------------------
(* Two tables, and the order in which the elements of the first were stored *)

\* seq without its elements equal to value
Without(seq, value) == LET Keep(item) == ~eq_fn(item, value) IN SelectSeq(seq, Keep)

\* self.insert(value): a value that is stored was inserted into the table
\* and pushed to a bucket of the bucket array
OInsert(value) ==
    /\ ~Borrowed
    /\ len(table) < MaxSelf
    /\ LET r == insert(table, value)
       IN  /\ table' = r.table
           /\ history' = IF r.ret
                         THEN [inserted |-> Append(history.inserted, value),
                               pushed |-> Append(history.pushed, value)]
                         ELSE history
    /\ last' = Mutated
    /\ UNCHANGED <<strategy, other, panicked, cmp, test, runVars>>

\* self.remove(value)
ORemove(value) ==
    /\ ~Borrowed
    /\ LET r == remove(table, value)
       IN  /\ table' = r.table
           /\ history' = IF r.ret
                         THEN [inserted |-> Without(history.inserted, value),
                               pushed |-> Without(history.pushed, value)]
                         ELSE history
    /\ last' = Mutated
    /\ UNCHANGED <<strategy, other, panicked, cmp, test, runVars>>

\* self.rebuild(n, _): the old buckets are drained in ascending index, each
\* from its front, and every item is pushed to a bucket of the new array
ORebuild(n) ==
    /\ ~Borrowed
    /\ table' = rebuild(table, n)
    /\ history' = [history EXCEPT !.pushed = iter(table)]
    /\ last' = Mutated
    /\ UNCHANGED <<strategy, other, panicked, cmp, test, runVars>>

\* self.clear()
OClear ==
    /\ ~Borrowed
    /\ table' = clear(table)
    /\ history' = NoHistory
    /\ last' = Mutated
    /\ UNCHANGED <<strategy, other, panicked, cmp, test, runVars>>

NextOrder ==
    \/ \E v \in Values(strategy) : OInsert(v)
    \/ \E v \in Values(strategy) : ORemove(v)
    \/ \E n \in BucketCounts : ORebuild(n)
    \/ OClear
    \/ \E v \in Values(strategy) : DInsert("other", v)
    \/ Difference
    \/ DropResult

\* the first table starts with any bucket count, the second with one bucket
SpecOrder == Init /\ [][NextOrder]_vars

\* the bucket of t that holds item, and the place of item in a sequence
BucketOf(t, item) == CHOOSE i \in 1 .. Len(t.buckets) : item \in Range(t.buckets[i])

IndexIn(seq, item) == CHOOSE k \in 1 .. Len(seq) : seq[k] = item

\* result lists elements of t by ascending bucket, and those of one bucket
\* in the order they have in the sequence order
ListedBy(result, t, order) ==
    \A i, j \in 1 .. Len(result) :
        i < j =>
            \/ BucketOf(t, result[i]) < BucketOf(t, result[j])
            \/ /\ BucketOf(t, result[i]) = BucketOf(t, result[j])
               /\ IndexIn(order, result[i]) < IndexIn(order, result[j])

\* the history holds exactly the stored elements, each once
HistoryOfTable ==
    /\ Range(history.inserted) = Range(iter(table))
    /\ Range(history.pushed) = Range(iter(table))
    /\ Len(history.inserted) = len(table)
    /\ Len(history.pushed) = len(table)

\* C25 as stated: the result of difference lists elements by ascending bucket
\* index, and within a bucket in the order in which they were inserted into
\* the table, also after remove and rebuild.
C25_InsertionOrderWithinBucket ==
    last.op = "difference" => ListedBy(last.ret, table, history.inserted)

\* C25 amended: the result of difference lists elements by ascending bucket
\* index, and within a bucket in the order in which they were pushed to the
\* bucket array: by insert when it stored them, by rebuild in the order it
\* drained the old buckets. Without a rebuild in between this is the order of
\* insertion into the table.
C25_PushOrderWithinBucket ==
    /\ HistoryOfTable
    /\ last.op = "difference" =>
          /\ ListedBy(last.ret, table, history.pushed)
          /\ history.pushed = history.inserted => ListedBy(last.ret, table, history.inserted)

\* C25 witness: a difference of two elements of one bucket that a rebuild
\* stored in the reverse of the order of their insertion
C25_Witness ==
    /\ last.op = "difference"
    /\ Len(last.ret) = 2
    /\ BucketOf(table, last.ret[1]) = BucketOf(table, last.ret[2])
    /\ history.inserted = <<last.ret[2], last.ret[1]>>
    /\ history.pushed = <<last.ret[1], last.ret[2]>>

\* the strategy gives equal values the same hash
StrategyConsistent ==
    \A a, b \in Values(strategy) : eq_fn(a, b) => hash_fn(a) = hash_fn(b)

\* C26: with a strategy that gives equal values the same hash, on a table
\* reached by insert, remove, clear and rebuild(n >= 1), when remove(v) has
\* returned true then contains(v) is false, len() is one less than before,
\* contains(w) is as before for every w not equal to v, and insert(v) returns
\* true.
C26_RemoveThenAbsent ==
    (StrategyConsistent /\ last.op = "remove" /\ last.ret = TRUE) =>
        /\ ~contains(table, last.value)
        /\ len(table) = len(last.before) - 1
        /\ \A w \in Values(strategy) :
              ~eq_fn(w, last.value) => (contains(table, w) <=> contains(last.before, w))
        /\ LET r == insert(table, last.value)
           IN  /\ r.ret = TRUE
               /\ contains(r.table, last.value)
               /\ len(r.table) = len(last.before)

\* C26 witness: a remove returned true on a table that had been rebuilt to
\* several buckets and held another element in the bucket of the removed one
C26_Witness ==
    /\ StrategyConsistent
    /\ last.op = "remove"
    /\ last.ret = TRUE
    /\ table.buckets_required >= 2
    /\ table.buckets[BucketIndex(table, last.value)] # <<>>
    /\ \E w \in Values(strategy) : ~eq_fn(w, last.value) /\ contains(table, w)
    /\ \E w \in Values(strategy) : w # last.value /\ eq_fn(w, last.value)

====
